---- MODULE Spec2Model ----
(***************************************************************************)
(* key_value_parser: the borrow-with-fallback table builder                *)
(* (full_almost_zero_copy::Parser) and the targeted lookup                 *)
(* (zero_parse::parse), modelled over character sequences.                 *)
(*                                                                         *)
(* A text is a sequence of one-character strings.  A &str slice of the     *)
(* input is a position into the input; a parser takes the input and the    *)
(* position of its first unconsumed character and returns either           *)
(*   [ok |-> TRUE,  rest |-> position after what it consumed, out |-> ..]  *)
(* or [ok |-> FALSE, code |-> the nom ErrorKind].                          *)
(***************************************************************************)
EXTENDS Integers, Sequences, FiniteSets, TLC

(***************************************************************************)
(* Characters.                                                             *)
(***************************************************************************)
\* nom::character::complete::multispace0 accepts exactly these four.
MultispaceChars == {" ", "\t", "\r", "\n"}

\* char::is_whitespace (Unicode White_Space), on the model's alphabet: the
\* four above and the form feed, which multispace0 does not accept.
is_whitespace(c) == c \in MultispaceChars \cup {"\f"}

\* char::is_alphanumeric, on the model's alphabet.
is_alphanumeric(c) == c \in {"a", "b", "c", "n", "1", "2"}

\* the key predicate: |c| c.is_alphanumeric() || c == '-' || c == '_'
is_key_char(c) == is_alphanumeric(c) \/ c = "-" \/ c = "_"

\* the quoted-run predicate: |c| c != '\\' && c != '"'
is_plain_char(c) == c # "\\" /\ c # "\""

Ok(rest, out) == [ok |-> TRUE, rest |-> rest, out |-> out]
Err(code) == [ok |-> FALSE, code |-> code]

\* s[i..j-1] as a text
Slice(s, i, j) == SubSeq(s, i, j - 1)

(***************************************************************************)
(* nom primitives (complete variants).                                     *)
(***************************************************************************)
\* multispace0: skip zero or more multispace characters; never fails.
multispace0(s, i) ==
    CHOOSE j \in i..(Len(s) + 1) :
        /\ \A k \in i..(j - 1) : s[k] \in MultispaceChars
        /\ (j = Len(s) + 1 \/ s[j] \notin MultispaceChars)

\* str::trim_start: skip every leading char::is_whitespace character.
trim_start(s) ==
    CHOOSE j \in 1..(Len(s) + 1) :
        /\ \A k \in 1..(j - 1) : is_whitespace(s[k])
        /\ (j = Len(s) + 1 \/ ~is_whitespace(s[j]))

\* take_while(key predicate): zero or more characters; never fails.
take_while_key(s, i) ==
    CHOOSE j \in i..(Len(s) + 1) :
        /\ \A k \in i..(j - 1) : is_key_char(s[k])
        /\ (j = Len(s) + 1 \/ ~is_key_char(s[j]))

\* take_while(|c| !c.is_whitespace()): zero or more characters; never fails.
take_while_non_ws(s, i) ==
    CHOOSE j \in i..(Len(s) + 1) :
        /\ \A k \in i..(j - 1) : ~is_whitespace(s[k])
        /\ (j = Len(s) + 1 \/ is_whitespace(s[j]))

\* take_while(|c| c != '\\' && c != '"'): zero or more characters.
take_while_plain(s, i) ==
    CHOOSE j \in i..(Len(s) + 1) :
        /\ \A k \in i..(j - 1) : is_plain_char(s[k])
        /\ (j = Len(s) + 1 \/ ~is_plain_char(s[j]))

\* take(1usize): one character, or ErrorKind::Eof on an empty input.
take1(s, i) == IF i <= Len(s) THEN Ok(i + 1, s[i]) ELSE Err("Eof")

\* a tag that lets a missing delimiter pass
tag_lenient(t, s, i) == IF i <= Len(s) /\ s[i] = t THEN Ok(i + 1, t) ELSE Ok(i, t)

\* tag(t) for a one-character tag: ErrorKind::Tag unless the input starts with it.
tag(t, s, i) == IF i <= Len(s) /\ s[i] = t THEN Ok(i + 1, t) ELSE Err("Tag")

(***************************************************************************)
(* StringOrStr: Str borrows the input span [off, off+len), String owns     *)
(* its text.                                                               *)
(***************************************************************************)
Str(off, len) == [kind |-> "Str", off |-> off, len |-> len]
String(text) == [kind |-> "String", text |-> text]

\* impl AsRef<str> for StringOrStr
as_ref(s, v) ==
    IF v.kind = "Str" THEN Slice(s, v.off, v.off + v.len) ELSE v.text

(***************************************************************************)
(* full_almost_zero_copy: the capturing value readers.                     *)
(***************************************************************************)
unquoted_value(s, i) ==
    LET j == take_while_non_ws(s, i) IN Ok(j, Str(i, j - i))

NoAccum == [some |-> FALSE]
SomeAccum(text) == [some |-> TRUE, text |-> text]

\* quoted_value with the accumulator allocated whether or not a backslash
\* was seen
quoted_value_iter_always_owned(s, head, accum) ==
    LET input == take_while_plain(s, head)
        so_far == Slice(s, head, input)
        hit == take1(s, input)
        acc == IF accum.some THEN accum.text ELSE <<>>
    IN  IF ~hit.ok THEN [done |-> TRUE, res |-> Err(hit.code)]
        ELSE IF hit.out = "\""
        THEN [done |-> TRUE, res |-> Ok(hit.rest, String(acc \o so_far))]
        ELSE LET nxt == take1(s, hit.rest) IN
             IF ~nxt.ok THEN [done |-> TRUE, res |-> Err(nxt.code)]
             ELSE [done |-> FALSE,
                   head |-> nxt.rest,
                   accum |-> SomeAccum(acc \o so_far \o <<nxt.out>>)]

\* quoted_value without the push_str(so_far) in front of an escape
quoted_value_iter_drops_run(s, head, accum) ==
    LET input == take_while_plain(s, head)
        so_far == Slice(s, head, input)
        hit == take1(s, input)
        acc == IF accum.some THEN accum.text ELSE <<>>
    IN  IF ~hit.ok THEN [done |-> TRUE, res |-> Err(hit.code)]
        ELSE IF hit.out = "\""
        THEN [done |-> TRUE,
              res |-> Ok(hit.rest,
                         IF accum.some THEN String(acc \o so_far)
                                       ELSE Str(head, input - head))]
        ELSE LET nxt == take1(s, hit.rest) IN
             IF ~nxt.ok THEN [done |-> TRUE, res |-> Err(nxt.code)]
             ELSE [done |-> FALSE,
                   head |-> nxt.rest,
                   accum |-> SomeAccum(acc \o <<nxt.out>>)]

\* One iteration of the loop of quoted_value, entered with `head` and
\* `accum`: [done |-> TRUE, res |-> what the function returns] or
\* [done |-> FALSE, head |-> .., accum |-> ..] for the next iteration.
quoted_value_iter(s, head, accum) ==
    LET input == take_while_plain(s, head)
        so_far == Slice(s, head, input)
        hit == take1(s, input)
    IN  IF ~hit.ok THEN [done |-> TRUE, res |-> Err(hit.code)]
        ELSE IF hit.out = "\""
        THEN [done |-> TRUE,
              res |-> Ok(hit.rest,
                         IF accum.some THEN String(accum.text \o so_far)
                                       ELSE Str(head, input - head))]
        ELSE LET nxt == take1(s, hit.rest) IN
             IF ~nxt.ok THEN [done |-> TRUE, res |-> Err(nxt.code)]
             ELSE [done |-> FALSE,
                   head |-> nxt.rest,
                   accum |-> SomeAccum((IF accum.some THEN accum.text ELSE <<>>)
                                        \o so_far \o <<nxt.out>>)]

RECURSIVE quoted_value_loop(_, _, _)
quoted_value_loop(s, head, accum) ==
    LET it == quoted_value_iter(s, head, accum) IN
    IF it.done THEN it.res ELSE quoted_value_loop(s, it.head, it.accum)

quoted_value(s, i) ==
    LET open == tag("\"", s, i) IN
    IF ~open.ok THEN Err(open.code)
    ELSE quoted_value_loop(s, open.rest, NoAccum)

\* parse_value without the peek that fails on an exhausted input
parse_value_no_peek(s, i) ==
    IF i <= Len(s) /\ s[i] = "\"" THEN quoted_value(s, i)
    ELSE unquoted_value(s, i)

parse_value(s, i) ==
    LET peek == take1(s, i) IN
    IF ~peek.ok THEN Err(peek.code)
    ELSE IF peek.out = "\"" THEN quoted_value(s, i)
    ELSE unquoted_value(s, i)

\* parse_one_key_value: out is [key |-> the key's text, value |-> StringOrStr]
parse_one_key_value(s, i) ==
    LET i1 == multispace0(s, i)
        i2 == take_while_key(s, i1)
        key == Slice(s, i1, i2)
        i3 == multispace0(s, i2)
        eq == tag("=", s, i3)
    IN  IF ~eq.ok THEN Err(eq.code)
        ELSE LET i4 == multispace0(s, eq.rest)
                 val == parse_value(s, i4)
             IN  IF ~val.ok THEN Err(val.code)
                 ELSE Ok(multispace0(s, val.rest),
                         [key |-> key, value |-> val.out])

(***************************************************************************)
(* zero_parse: the skip-only value traversal.                              *)
(***************************************************************************)
eat_unquoted_value(s, i) == Ok(take_while_non_ws(s, i), <<>>)

\* eat_quoted_value without the take(1) behind a backslash
eat_quoted_value_iter_no_escape(s, head) ==
    LET input == take_while_plain(s, head)
        hit == take1(s, input)
    IN  IF ~hit.ok THEN [done |-> TRUE, res |-> Err(hit.code)]
        ELSE IF hit.out = "\"" THEN [done |-> TRUE, res |-> Ok(hit.rest, <<>>)]
        ELSE [done |-> FALSE, head |-> hit.rest]

\* One iteration of the loop of eat_quoted_value.
eat_quoted_value_iter(s, head) ==
    LET input == take_while_plain(s, head)
        hit == take1(s, input)
    IN  IF ~hit.ok THEN [done |-> TRUE, res |-> Err(hit.code)]
        ELSE IF hit.out = "\"" THEN [done |-> TRUE, res |-> Ok(hit.rest, <<>>)]
        ELSE LET nxt == take1(s, hit.rest) IN
             IF ~nxt.ok THEN [done |-> TRUE, res |-> Err(nxt.code)]
             ELSE [done |-> FALSE, head |-> nxt.rest]

RECURSIVE eat_quoted_value_loop(_, _)
eat_quoted_value_loop(s, head) ==
    LET it == eat_quoted_value_iter(s, head) IN
    IF it.done THEN it.res ELSE eat_quoted_value_loop(s, it.head)

eat_quoted_value(s, i) ==
    LET open == tag("\"", s, i) IN
    IF ~open.ok THEN Err(open.code)
    ELSE eat_quoted_value_loop(s, open.rest)

eat_value(s, i) ==
    LET peek == take1(s, i) IN
    IF ~peek.ok THEN Err(peek.code)
    ELSE IF peek.out = "\"" THEN eat_quoted_value(s, i)
    ELSE eat_unquoted_value(s, i)

(***************************************************************************)
(* The inputs.  An input text is written from a list of items: each item   *)
(* is one pair as it stands in the text (possibly malformed), followed by  *)
(* the whitespace that separates it from the next one.                     *)
(*   pre   characters in front of the key                                  *)
(*   key   the key's characters                                            *)
(*   ws1   whitespace between key and '='                                  *)
(*   eq    whether the '=' is there                                        *)
(*   ws2   whitespace between '=' and value                                *)
(*   val   [quoted, toks, closed]: toks are the value's characters, each   *)
(*         written plain or behind a backslash                             *)
(*   sep   whitespace after the value                                      *)
(***************************************************************************)
MaxItems == 2

L(c) == [esc |-> FALSE, c |-> c]
E(c) == [esc |-> TRUE, c |-> c]
Unquoted(toks) == [quoted |-> FALSE, toks |-> toks, closed |-> TRUE]
Quoted(toks) == [quoted |-> TRUE, toks |-> toks, closed |-> TRUE]
Unclosed(toks) == [quoted |-> TRUE, toks |-> toks, closed |-> FALSE]

Item(pre, key, ws1, eq, ws2, val, sep) ==
    [pre |-> pre, key |-> key, ws1 |-> ws1, eq |-> eq, ws2 |-> ws2,
     val |-> val, sep |-> sep]

Pair(key, val, sep) == Item(<<>>, key, <<>>, TRUE, <<>>, val, sep)

U1 == Unquoted(<<L("1")>>)
U2 == Unquoted(<<L("2")>>)
UEmpty == Unquoted(<<>>)
QEmpty == Quoted(<<>>)
QPlain == Quoted(<<L("1"), L(" ")>>)
QEsc == Quoted(<<E("\"")>>)
QMix == Quoted(<<L("1"), E("n"), E("\\"), E("\""), L("2")>>)

SP == <<" ">>
FF == <<"\f">>

ItemShapes ==
    \* well-formed pairs, one space after each
    {Pair(k, v, SP) : k \in {<<"a">>, <<"b">>}, v \in {U1, QEsc}}
    \cup {Pair(<<"a">>, U2, SP), Pair(<<"b">>, QPlain, SP),
          Pair(<<"a">>, QEmpty, SP), Pair(<<"a">>, QMix, SP)}
    \* whitespace around '='
    \cup {Item(<<>>, <<"a">>, w[1], TRUE, w[2], v, SP) :
            w \in {<<SP, <<>>>>, <<<<>>, SP>>}, v \in {U2, QEsc}}
    \* other separators: none, a form feed, two spaces
    \cup {Pair(<<"a">>, U1, <<>>), Pair(<<"b">>, QPlain, <<>>),
          Pair(<<"a">>, U1, FF), Pair(<<"b">>, QEsc, FF),
          Pair(<<"b">>, U2, <<" ", " ">>)}
    \* an empty unquoted value, before whitespace and before the end
    \cup {Pair(<<"a">>, UEmpty, SP), Pair(<<"b">>, UEmpty, <<>>)}
    \* malformed: empty key, no '=', a character outside the key alphabet
    \* in front, no closing quote
    \cup {Pair(<<>>, U1, SP),
          Item(<<>>, <<"b">>, <<>>, FALSE, <<>>, UEmpty, SP),
          Item(<<>>, <<"a">>, <<>>, FALSE, <<>>, UEmpty, <<>>),
          Item(<<";">>, <<"a">>, <<>>, TRUE, <<>>, U1, SP),
          Pair(<<"b">>, Unclosed(<<L("1")>>), <<>>),
          Pair(<<"a">>, Unclosed(<<L("1"), E("\"")>>), <<>>),
          \* the text ends with a backslash inside a quoted value
          Pair(<<"b">>, Unclosed(<<L("1"), L("\\")>>), <<>>)}

Leads == {<<>>, <<" ", "\f">>}
SearchKeys == {<<"a">>, <<"b">>, <<>>}

RECURSIVE RenderToks(_)
RenderToks(toks) ==
    IF toks = <<>> THEN <<>>
    ELSE (IF Head(toks).esc THEN <<"\\", Head(toks).c>> ELSE <<Head(toks).c>>)
         \o RenderToks(Tail(toks))

RenderVal(v) ==
    IF v.quoted
    THEN <<"\"">> \o RenderToks(v.toks) \o (IF v.closed THEN <<"\"">> ELSE <<>>)
    ELSE RenderToks(v.toks)

RenderItem(it) ==
    it.pre \o it.key \o it.ws1
    \o (IF it.eq THEN <<"=">> \o it.ws2 \o RenderVal(it.val) ELSE <<>>)
    \o it.sep

RECURSIVE RenderItems(_)
RenderItems(its) ==
    IF its = <<>> THEN <<>> ELSE RenderItem(Head(its)) \o RenderItems(Tail(its))

\* what the value of an item reads as: its characters, backslashes dropped
Decoded(v) == [n \in 1..Len(v.toks) |-> v.toks[n].c]

(***************************************************************************)
(* State.                                                                  *)
(***************************************************************************)
VARIABLES
    lead,        \* whitespace in front of the first item
    src,         \* the items the input is written from
    search_key,  \* the key handed to zero_parse::parse
    new_pc,      \* Parser::new: "call", "loop", "done"
    new_head,    \* Parser::new: head, as a position of the input
    map,         \* Parser::new: the local HashMap, key text -> StringOrStr
    parser,      \* what Parser::new returned
    zp_pc,       \* zero_parse::parse: "call", "loop", "done"
    zp_head,     \* nom_parse: head, as a position of the input
    found        \* what zero_parse::parse returned

vars == <<lead, src, search_key, new_pc, new_head, map, parser,
          zp_pc, zp_head, found>>

\* the text both operations are called on
input == lead \o RenderItems(src)

Empty == [k \in {} |-> 0]
None == [ok |-> FALSE, code |-> "none"]

\* an insert that keeps the value a key already has
insert_keeps_first(m, key, value) ==
    [k \in DOMAIN m \cup {key} |-> IF k \in DOMAIN m THEN m[k] ELSE value]

\* HashMap::insert: a later value replaces an earlier value of the same key
insert(m, key, value) ==
    [k \in DOMAIN m \cup {key} |-> IF k = key THEN value ELSE m[k]]

\* Parser::get
get(p, key) ==
    IF key \in DOMAIN p.map THEN [some |-> TRUE, text |-> as_ref(input, p.map[key])]
    ELSE [some |-> FALSE]

\* Parser::len
len(p) == Cardinality(DOMAIN p.map)

\* Parser::is_empty
is_empty(p) == DOMAIN p.map = {}

Init ==
    /\ lead \in Leads
    /\ src \in UNION {[1..n -> ItemShapes] : n \in 0..MaxItems}
    /\ search_key \in SearchKeys
    /\ new_pc = "call"
    /\ new_head = 1
    /\ map = Empty
    /\ parser = None
    /\ zp_pc = "call"
    /\ zp_head = 1
    /\ found = None

(***************************************************************************)
(* full_almost_zero_copy::Parser::new                                      *)
(***************************************************************************)
\* let mut map = HashMap::new(); let mut head = input.trim_start();
NewEnter ==
    /\ new_pc = "call"
    /\ new_pc' = "loop"
    /\ new_head' = trim_start(input)
    /\ map' = Empty
    /\ UNCHANGED <<lead, src, search_key, parser, zp_pc, zp_head, found>>

\* one iteration of `while !head.is_empty()`
NewIterate ==
    /\ new_pc = "loop"
    /\ new_head <= Len(input)
    /\ LET r == parse_one_key_value(input, new_head) IN
       IF r.ok
       THEN /\ map' = insert(map, r.out.key, r.out.value)
            /\ new_head' = r.rest
            /\ UNCHANGED <<new_pc, parser>>
       ELSE \* the `?`: the error is returned and the local map is dropped
            /\ parser' = [ok |-> FALSE, code |-> r.code]
            /\ new_pc' = "done"
            /\ map' = Empty
            /\ UNCHANGED new_head
    /\ UNCHANGED <<lead, src, search_key, zp_pc, zp_head, found>>

\* Ok(Self { map })
NewReturn ==
    /\ new_pc = "loop"
    /\ new_head > Len(input)
    /\ parser' = [ok |-> TRUE, map |-> map]
    /\ new_pc' = "done"
    /\ UNCHANGED <<lead, src, search_key, new_head, map, zp_pc, zp_head, found>>

(***************************************************************************)
(* zero_parse::parse, over nom_parse                                       *)
(***************************************************************************)
\* parse: Ok((_, value)) => Ok(value); ErrorKind::Fail => "Key not found";
\* any other kind => "Error parsing input"
parse_result(res) ==
    IF res.ok THEN [ok |-> TRUE, value |-> res.out]
    ELSE IF res.code = "Fail" THEN [ok |-> FALSE, msg |-> "Key not found"]
    ELSE [ok |-> FALSE, msg |-> "Error parsing input"]

\* let mut head = input.trim_start();
ParseEnter ==
    /\ zp_pc = "call"
    /\ new_pc = "done"
    /\ zp_pc' = "loop"
    /\ zp_head' = trim_start(input)
    /\ UNCHANGED <<lead, src, search_key, new_pc, new_head, map, parser, found>>

\* what one iteration of nom_parse's loop does from `head`:
\* [ret |-> TRUE, res |-> the IResult returned] or [ret |-> FALSE, head |-> ..]
nom_parse_iter(s, head, key_wanted) ==
    LET i1 == multispace0(s, head)
        i2 == take_while_key(s, i1)
        key == Slice(s, i1, i2)
        i3 == multispace0(s, i2)
        eq == tag("=", s, i3)
    IN  IF ~eq.ok THEN [ret |-> TRUE, res |-> Err(eq.code)]
        ELSE IF key = key_wanted
        THEN LET val == parse_value(s, eq.rest) IN
             [ret |-> TRUE,
              res |-> IF val.ok THEN Ok(eq.rest, val.out) ELSE Err(val.code)]
        ELSE LET eaten == eat_value(s, eq.rest) IN
             IF eaten.ok THEN [ret |-> FALSE, head |-> eaten.rest]
             ELSE [ret |-> TRUE, res |-> Err(eaten.code)]

\* one iteration of `while !head.is_empty()`
ParseIterate ==
    /\ zp_pc = "loop"
    /\ zp_head <= Len(input)
    /\ LET it == nom_parse_iter(input, zp_head, search_key) IN
       IF it.ret
       THEN /\ found' = parse_result(it.res)
            /\ zp_pc' = "done"
            /\ UNCHANGED zp_head
       ELSE /\ zp_head' = it.head
            /\ UNCHANGED <<zp_pc, found>>
    /\ UNCHANGED <<lead, src, search_key, new_pc, new_head, map, parser>>

\* the loop ends without a match: Err(ErrorKind::Fail)
ParseNotFound ==
    /\ zp_pc = "loop"
    /\ zp_head > Len(input)
    /\ found' = parse_result(Err("Fail"))
    /\ zp_pc' = "done"
    /\ UNCHANGED <<lead, src, search_key, new_pc, new_head, map, parser, zp_head>>

Next ==
    \/ NewEnter
    \/ NewIterate
    \/ NewReturn
    \/ ParseEnter
    \/ ParseIterate
    \/ ParseNotFound

Spec == Init /\ [][Next]_vars

(***************************************************************************)
(* What the input says, read off the items it was written from.            *)
(***************************************************************************)
Last(n) == n = Len(src)
HasEscape(v) == \E t \in 1..Len(v.toks) : v.toks[t].esc
IsWs(text) == \A n \in 1..Len(text) : is_whitespace(text[n])

\* a pair of the grammar with a value that is not empty or is quoted
GoodItem(it) ==
    /\ it.pre = <<>>
    /\ it.key # <<>>
    /\ it.eq
    /\ it.val.closed
    /\ (it.val.quoted \/ it.val.toks # <<>>)

\* the items up to n are pairs of the grammar, each unquoted value ended by
\* whitespace or by the end of the text
ValidUpTo(n) ==
    \A m \in 1..n :
        /\ GoodItem(src[m])
        /\ (src[m].val.quoted \/ src[m].sep # <<>> \/ Last(m))

\* a valid document
DocValid == ValidUpTo(Len(src))

KeysOf == {src[n].key : n \in 1..Len(src)}
Occurs(k) == k \in KeysOf
FirstOf(k) == CHOOSE n \in 1..Len(src) :
    src[n].key = k /\ \A m \in 1..(n - 1) : src[m].key # k
LastOf(k) == CHOOSE n \in 1..Len(src) :
    src[n].key = k /\ \A m \in (n + 1)..Len(src) : src[m].key # k

\* positions in the input: where item n starts, where its value starts,
\* and where the value's characters start (behind the opening quote)
RECURSIVE ItemStart(_)
ItemStart(n) ==
    IF n = 1 THEN Len(lead) + 1
    ELSE ItemStart(n - 1) + Len(RenderItem(src[n - 1]))
ValueStart(n) ==
    ItemStart(n) + Len(src[n].pre) + Len(src[n].key) + Len(src[n].ws1) + 1
    + Len(src[n].ws2)
BodyStart(n) == ValueStart(n) + (IF src[n].val.quoted THEN 1 ELSE 0)

NewDone == new_pc = "done"
ParseDone == zp_pc = "done"
Some(text) == [some |-> TRUE, text |-> text]

(***************************************************************************)
(* C1.  For every valid document and every key k that occurs in it, the    *)
(* targeted lookup succeeds and returns the same text as get on the built  *)
(* table (repeated keys, whitespace around '=' and after the last pair     *)
(* included).                                                              *)
(***************************************************************************)
C1_LookupEqualsGet ==
    (NewDone /\ ParseDone /\ DocValid /\ Occurs(search_key)) =>
        /\ parser.ok
        /\ found.ok
        /\ get(parser, search_key) = Some(as_ref(input, found.value))

(***************************************************************************)
(* C2.  After build succeeds on a valid document, get(k) is the value of   *)
(* the last occurrence of k, none when k never occurs, and len is the      *)
(* number of distinct keys.                                                *)
(***************************************************************************)
C2_LastOccurrenceWins ==
    (NewDone /\ DocValid /\ parser.ok) =>
        /\ \A k \in KeysOf : get(parser, k) = Some(Decoded(src[LastOf(k)].val))
        /\ \A k \in SearchKeys \ KeysOf : get(parser, k) = [some |-> FALSE]
        /\ len(parser) = Cardinality(KeysOf)

\* a table built from a document that repeats a key with two different
\* values and lacks another key
C2_Witness ==
    /\ NewDone /\ DocValid /\ parser.ok
    /\ Len(src) = 2
    /\ src[1].key = src[2].key
    /\ Decoded(src[1].val) # Decoded(src[2].val)
    /\ get(parser, src[1].key) = Some(Decoded(src[2].val))
    /\ \E k \in SearchKeys : get(parser, k) = [some |-> FALSE]

(***************************************************************************)
(* C3.  For a valid document that does not contain k (also one that ends   *)
(* with whitespace), the lookup fails with KeyNotFound, not with a parse   *)
(* error and not with a value.                                             *)
(***************************************************************************)
C3_AbsentKeyNotFound ==
    (ParseDone /\ DocValid /\ ~Occurs(search_key)) =>
        (~found.ok /\ found.msg = "Key not found")

(***************************************************************************)
(* C4.  In a built table every unquoted value is borrowed, a quoted value  *)
(* without a backslash is borrowed and is exactly the input span between   *)
(* its quotes, and a value is owned exactly when a backslash occurs in it; *)
(* the choice is made value by value.                                      *)
(***************************************************************************)
ExpectedRepr(n) ==
    IF HasEscape(src[n].val) THEN String(Decoded(src[n].val))
    ELSE Str(BodyStart(n), Len(src[n].val.toks))

C4_OwnedOnlyOnEscape ==
    (NewDone /\ DocValid /\ parser.ok) =>
        \A k \in KeysOf : parser.map[k] = ExpectedRepr(LastOf(k))

\* one table holding an owned value (an escape) next to a borrowed quoted
\* value
C4_Witness ==
    /\ NewDone /\ DocValid /\ parser.ok
    /\ Len(src) = 2
    /\ src[1].key # src[2].key
    /\ HasEscape(src[1].val)
    /\ src[2].val.quoted /\ ~HasEscape(src[2].val)
    /\ parser.map[src[1].key].kind = "String"
    /\ parser.map[src[2].key].kind = "Str"

(***************************************************************************)
(* C5.  A properly terminated quoted value reads as the characters between *)
(* its quotes in their order, each backslash dropped and the character     *)
(* after it kept as it is; an escaped quote does not end the value.        *)
(***************************************************************************)
C5_EscapeDecoding ==
    (NewDone /\ DocValid /\ parser.ok) =>
        \A k \in KeysOf :
            src[LastOf(k)].val.quoted =>
                as_ref(input, parser.map[k]) = Decoded(src[LastOf(k)].val)

\* a value with an escaped n, an escaped backslash and an escaped quote has
\* been read into the table, and the pair after it too
C5_Witness ==
    /\ NewDone /\ DocValid /\ parser.ok
    /\ Len(src) = 2
    /\ src[1].val = QMix
    /\ src[2].key # src[1].key
    /\ get(parser, src[1].key) = Some(<<"1", "n", "\\", "\"", "2">>)
    /\ get(parser, src[2].key) = Some(Decoded(src[2].val))

(***************************************************************************)
(* Malformed pairs, as they stand in the text.                             *)
(***************************************************************************)
\* a key token that no '=' follows: the text ends behind it, or whitespace
\* and then something other than '=' follows
NoEqAt(n) ==
    /\ src[n].pre = <<>> /\ src[n].key # <<>> /\ ~src[n].eq
    /\ \/ Last(n)
       \/ src[n].sep # <<>> /\ RenderItem(src[n + 1])[1] # "="

\* a pair that starts with a character outside the key alphabet, not '='
BadStartAt(n) == src[n].pre # <<>>

\* a quoted value that no quote closes before the text ends
UnclosedAt(n) == src[n].eq /\ src[n].val.quoted /\ ~src[n].val.closed /\ Last(n)

\* a pair whose run of key characters is empty: it starts with '='
EmptyKeyAt(n) == src[n].pre = <<>> /\ src[n].key = <<>> /\ src[n].eq

\* a pair whose unquoted value is empty: whitespace or the end of the text
\* directly follows '='
EmptyValueAt(n) ==
    /\ src[n].pre = <<>> /\ src[n].key # <<>> /\ src[n].eq
    /\ src[n].ws2 = <<>> /\ src[n].val = UEmpty

NotBefore(n, k) == \A m \in 1..n : src[m].key # k

(***************************************************************************)
(* C6.  A key token that no '=' follows, a pair that starts with a         *)
(* character outside the key alphabet and a quoted value without a closing *)
(* quote each make build fail, returning no table, and make the lookup     *)
(* fail for every requested key that no earlier pair holds.                *)
(***************************************************************************)
MalformedAt(n) == NoEqAt(n) \/ BadStartAt(n) \/ UnclosedAt(n)

C7_EmptyKeyRejected ==
    /\ (NewDone /\ parser.ok) => <<>> \notin DOMAIN parser.map
    /\ (ParseDone /\ found.ok) => search_key # <<>>
    /\ \A n \in 1..Len(src) :
          (ParseDone /\ ValidUpTo(n - 1) /\ EmptyKeyAt(n)
           /\ NotBefore(n - 1, search_key)) => ~found.ok

(***************************************************************************)
(* C8.  As stated: when '=' is directly followed by whitespace or by the   *)
(* end of the input, build accepts the pair and stores an empty borrowed   *)
(* value for its key.                                                      *)
(***************************************************************************)
C8_EmptyValueStored ==
    (NewDone /\ Len(src) >= 1 /\ ValidUpTo(Len(src) - 1)
     /\ EmptyValueAt(Len(src))) =>
        /\ parser.ok
        /\ parser.map[src[Len(src)].key] = Str(ValueStart(Len(src)), 0)

(***************************************************************************)
(* C8, amended.  When '=' is followed by the end of the input, or by       *)
(* whitespace and then the end, build fails; and in a table that build     *)
(* returns, a borrowed value of length zero is always the span between the *)
(* two quotes of an empty quoted value, never an empty unquoted value.     *)
(***************************************************************************)
C8_EmptyValueRejected ==
    /\ (NewDone /\ Len(src) >= 1 /\ ValidUpTo(Len(src) - 1)
        /\ EmptyValueAt(Len(src))) => ~parser.ok
    /\ (NewDone /\ parser.ok) =>
          \A k \in DOMAIN parser.map :
              LET v == parser.map[k] IN
              (v.kind = "Str" /\ v.len = 0) =>
                  /\ v.off > 1 /\ v.off <= Len(input)
                  /\ input[v.off - 1] = "\""
                  /\ input[v.off] = "\""

\* build has failed on a text that ends with a pair, after a well-formed
\* one, whose '=' is directly followed by whitespace or by the end
C8_Witness ==
    /\ NewDone
    /\ Len(src) = 2
    /\ ValidUpTo(1) /\ EmptyValueAt(2)
    /\ ~parser.ok /\ parser.code = "Eof"

(***************************************************************************)
(* C9.  If a pair in front of the first occurrence of the target key is    *)
(* malformed (empty key, no '=', unterminated quoted value), the lookup    *)
(* fails, whether the target key comes later or not at all.                *)
(***************************************************************************)
C9_MalformedBeforeMatchFails ==
    \A n \in 1..Len(src) :
        (ParseDone /\ ValidUpTo(n - 1)
         /\ (EmptyKeyAt(n) \/ NoEqAt(n) \/ UnclosedAt(n))
         /\ NotBefore(n, search_key)) => ~found.ok

(***************************************************************************)
(* C10.  build succeeds whenever only whitespace, of any kind, remains     *)
(* behind the pairs read so far: whitespace before the first and after the *)
(* last pair causes no error and no extra entry, and a text of whitespace  *)
(* alone gives the empty table.                                            *)
(***************************************************************************)
IsMultispace(text) == \A n \in 1..Len(text) : text[n] \in MultispaceChars

C10_TrailingWhitespaceAccepted ==
    (NewDone /\ DocValid
     /\ \A n \in 1..(Len(src) - 1) : IsMultispace(src[n].sep)) =>
        /\ parser.ok
        /\ len(parser) = Cardinality(KeysOf)

(***************************************************************************)
(* zero_parse::parse as a whole, on any text: the loop of nom_parse run to *)
(* its end from a head.                                                    *)
(***************************************************************************)
RECURSIVE nom_parse_from(_, _, _)
nom_parse_from(s, head, key_wanted) ==
    IF head > Len(s) THEN Err("Fail")
    ELSE LET it == nom_parse_iter(s, head, key_wanted) IN
         IF it.ret THEN it.res ELSE nom_parse_from(s, it.head, key_wanted)

parse(s, key_wanted) ==
    parse_result(nom_parse_from(s, trim_start(s), key_wanted))

\* the position behind the value of item n, and the text up to the end of
\* that value: up to its closing quote, or up to and with the first
\* whitespace behind an unquoted value
ValueEnd(n) == ValueStart(n) + Len(RenderVal(src[n].val))
UpToValue(n) ==
    SubSeq(input, 1,
           IF src[n].val.quoted \/ src[n].sep = <<>> THEN ValueEnd(n) - 1
           ELSE ValueEnd(n))

\* item n is the first occurrence of the requested key, behind well-formed
\* pairs
FirstMatchAt(n) ==
    /\ ValidUpTo(n)
    /\ src[n].key = search_key
    /\ NotBefore(n - 1, search_key)

(***************************************************************************)
(* C11.  Early exit: when the target key occurs, the lookup returns the    *)
(* value of its first occurrence, and the result is the one the lookup     *)
(* gives on the text cut behind that value: whatever follows (malformed    *)
(* text, another pair with the same key) does not change it.               *)
(***************************************************************************)
C11_EarlyExit ==
    \A n \in 1..Len(src) :
        (ParseDone /\ FirstMatchAt(n)) =>
            /\ found.ok
            /\ as_ref(input, found.value) = Decoded(src[n].val)
            /\ found = parse(UpToValue(n), search_key)

\* the second half alone: the result is fixed by the text up to the end of
\* the first occurrence's value
C11_ResultFixedByPrefix ==
    \A n \in 1..Len(src) :
        (ParseDone /\ FirstMatchAt(n)) => found = parse(UpToValue(n), search_key)

(***************************************************************************)
(* C12.  The lookup scans key and '=' as build does, skipping whitespace   *)
(* between '=' and the value: where whitespace follows the '=' of the      *)
(* requested pair, or of a pair in front of it, the lookup still returns   *)
(* the requested pair's value.                                             *)
(***************************************************************************)
C12_LookupSkipsWhitespaceAfterEq ==
    \A n \in 1..Len(src) :
        (ParseDone /\ FirstMatchAt(n)
         /\ (\A m \in 1..(n - 1) : IsMultispace(src[m].sep))
         /\ (\E m \in 1..n : src[m].ws2 # <<>>)) =>
            /\ found.ok
            /\ as_ref(input, found.value) = Decoded(src[n].val)

(***************************************************************************)
(* C13.  The skip-only traversal (eat_value) and the capturing reader      *)
(* (parse_value) never diverge: at the value position of every iteration   *)
(* of the lookup's loop, the one after the '=', either both fail, with the *)
(* same error, or both succeed and leave the same unconsumed remainder.    *)
(***************************************************************************)
C13_EatMatchesParse ==
    (zp_pc = "loop" /\ zp_head <= Len(input)) =>
        LET s == input
            i1 == multispace0(s, zp_head)
            i2 == take_while_key(s, i1)
            i3 == multispace0(s, i2)
            eq == tag("=", s, i3)
        IN  eq.ok =>
                LET eaten == eat_value(s, eq.rest)
                    read == parse_value(s, eq.rest)
                IN  /\ eaten.ok = read.ok
                    /\ eaten.ok => eaten.rest = read.rest
                    /\ ~eaten.ok => eaten.code = read.code

\* the lookup has skipped a quoted value with escapes (an escaped quote
\* among them) in front of a text that ends with an escaped quote or with a
\* backslash, where both traversals fail
C13_Witness ==
    /\ zp_pc = "loop"
    /\ Len(src) = 2
    /\ src[1].val = QMix /\ src[1].key # search_key
    /\ zp_head = ValueEnd(1)
    /\ parse_value(input, ValueStart(1)).rest = zp_head
    /\ ~src[2].val.closed /\ src[2].val.toks # <<L("1")>>
    /\ ~eat_value(input, ValueStart(2)).ok
    /\ ~parse_value(input, ValueStart(2)).ok

(***************************************************************************)
(* The same two calls, with the caller's choice of the text and of the key *)
(* as a step of its own.  Both operations are synchronous calls: a call    *)
(* that can take a step takes it.                                          *)
(***************************************************************************)
Idle ==
    /\ lead = <<>>
    /\ src = <<>>
    /\ search_key = <<>>
    /\ new_pc = "idle"
    /\ new_head = 1
    /\ map = Empty
    /\ parser = None
    /\ zp_pc = "idle"
    /\ zp_head = 1
    /\ found = None

Call ==
    /\ new_pc = "idle"
    /\ lead' \in Leads
    /\ src' \in UNION {[1..n -> ItemShapes] : n \in 0..MaxItems}
    /\ search_key' \in SearchKeys
    /\ new_pc' = "call"
    /\ zp_pc' = "call"
    /\ UNCHANGED <<new_head, map, parser, zp_head, found>>

FairNext == Call \/ Next

\* an iteration that would leave every variable as it is: the loop would
\* run it again from the same head, for ever
Spins ==
    \/ /\ new_pc = "loop"
       /\ new_head <= Len(input)
       /\ LET r == parse_one_key_value(input, new_head) IN
          /\ r.ok
          /\ r.rest = new_head
          /\ insert(map, r.out.key, r.out.value) = map
    \/ /\ zp_pc = "loop"
       /\ zp_head <= Len(input)
       /\ LET it == nom_parse_iter(input, zp_head, search_key) IN
          /\ ~it.ret
          /\ it.head = zp_head

\* the state predicate that equals ENABLED <<FairNext>>_vars: a call is
\* still running and its next step changes the state
CanStep == ~(NewDone /\ ParseDone) /\ ~Spins

\* WF_vars(FairNext), written out with CanStep as the enabling condition
FairSpec == Idle /\ [][FairNext]_vars /\ (<>[]CanStep => []<><<FairNext>>_vars)

(***************************************************************************)
(* C14.  build and the lookup terminate on every input: from every         *)
(* position an iteration of the pair loop of either, and an iteration of   *)
(* the quoted-value loop of either, returns or leaves a head further on in *)
(* the input; and every call returns.                                      *)
(***************************************************************************)
C14_IterationsConsume ==
    LET s == input IN
    \A i \in 1..Len(s) :
        /\ LET r == parse_one_key_value(s, i) IN r.ok => r.rest > i
        /\ LET it == nom_parse_iter(s, i, search_key) IN ~it.ret => it.head > i
        /\ LET it == quoted_value_iter(s, i, NoAccum) IN ~it.done => it.head > i
        /\ LET it == eat_quoted_value_iter(s, i) IN ~it.done => it.head > i

C14_Terminates ==
    /\ []C14_IterationsConsume
    /\ <>(NewDone /\ ParseDone)

\* both calls have returned after two iterations of each pair loop, the
\* quoted-value loop having gone round for the escapes of the first value
C14_Witness ==
    /\ NewDone /\ ParseDone
    /\ Len(src) = 2
    /\ DocValid
    /\ src[1].val = QMix
    /\ ~quoted_value_iter(input, BodyStart(1), NoAccum).done
    /\ ~eat_quoted_value_iter(input, BodyStart(1)).done
    /\ src[1].key # search_key /\ src[2].key = search_key
    /\ parser.ok /\ len(parser) = 2
    /\ found.ok

====
